---- MODULE Spec2Model ----
(***************************************************************************)
(* Model of the gobits BITS upload handler (src/handler.go).               *)
(*                                                                         *)
(* The state is the filesystem under cfg.TempDir (session directories and  *)
(* the upload files in them), the handler configuration, and one record    *)
(* per request-handling goroutine: the request it serves, its position in  *)
(* the handler, its local variables and the response it produced.          *)
(* A handler is cut into steps at its filesystem accesses and at the       *)
(* callback, so that requests served concurrently interleave as the        *)
(* goroutines of net/http do.                                              *)
(***************************************************************************)
EXTENDS Integers, Sequences, FiniteSets, TLC

\* ---------------------------------------------------------------- bounds
\* largest file_length a Content-Range header declares
MaxLen == 2
\* number of session ids newUUID can mint
MaxSessions == 1
\* no new request is received once a file, or the record of what was written
\* to it, holds more than MaxDisk bytes
MaxDisk == 2

\* ------------------------------------------------------- value universes
\* the goroutines serving requests, numbered
Workers == {1, 2}
Byte == {"x", "y"}
Char == {"a", "b"}

\* net/http status codes used by the handler
StatusOK == 200
StatusBadRequest == 400
StatusMethodNotAllowed == 405
StatusRequestEntityTooLarge == 413
StatusRequestedRangeNotSatisfiable == 416
StatusInternalServerError == 500

\* BITS error context "remote file"
ErrorContextRemoteFile == 5

EventCreateSession == "EventCreateSession"
EventRecieveFile == "EventRecieveFile"
EventCancelSession == "EventCancelSession"
EventCloseSession == "EventCloseSession"

\* the ids newUUID mints, in minting order
UUIDs == [i \in 1..MaxSessions |-> <<"{", i, "}">>]
\* a session id header that is absent, and one that is not a canonical UUID
NoUUID == <<>>
BadUUID == <<"{", 1>>

BitsPost == "BITS_POST"
ProtocolGUID == "{7df0354d}"
OtherGUID == "{00000000}"

\* ------------------------------------------------------ pure helpers
Min(a, b) == IF a < b THEN a ELSE b

RECURSIVE SeqsUpTo(_, _)
SeqsUpTo(S, n) ==
  IF n = 0 THEN {<<>>}
  ELSE LET T == SeqsUpTo(S, n - 1)
       IN  T \cup {Append(t, s) : t \in {u \in T : Len(u) = n - 1}, s \in S}

\* data[dataOffset:]
SliceFrom(data, off) == SubSeq(data, off + 1, Len(data))

\* isValidUUID: the canonical textual form {xxxxxxxx-...} braces included
isValidUUID(uuid) ==
  /\ Len(uuid) = 3
  /\ uuid[1] = "{"
  /\ uuid[3] = "}"

\* strings.ToLower on the packet types a client sends
ToLower(s) ==
  CASE s = "Ping" -> "ping"
    [] s = "Fragment" -> "fragment"
    [] s = "Create-Session" -> "create-session"
    [] s = "Cancel-Session" -> "cancel-session"
    [] s = "Close-Session" -> "close-session"
    [] OTHER -> s

\* path.Split(r.RequestURI): the text after the last slash.  A URI is the
\* sequence of its segments; a URI ending in a slash has an empty last segment.
PathSplitFile(uri) == IF uri = <<>> THEN <<>> ELSE uri[Len(uri)]

\* parseRange: "bytes A-B/C".  The header is <<A, B, C>>, or <<>> when it does
\* not have that shape.  Fails if malformed, A > B or C <= B.
parseRange(h) ==
  IF Len(h) # 3 THEN [err |-> TRUE, rangeStart |-> 0, rangeEnd |-> 0, fileLength |-> 0]
  ELSE IF h[1] > h[2] \/ h[3] <= h[2]
       THEN [err |-> TRUE, rangeStart |-> 0, rangeEnd |-> 0, fileLength |-> 0]
       ELSE [err |-> FALSE, rangeStart |-> h[1], rangeEnd |-> h[2], fileLength |-> h[3]]

\* strconv.ParseUint(Content-Length): the header is a number, or -1 when it is
\* absent or not a decimal unsigned integer.
ParseUint(h) == IF h < 0 THEN [err |-> TRUE, n |-> 0] ELSE [err |-> FALSE, n |-> h]

\* regexp.MatchString(reg, filename).  A pattern is ^lit, lit$, .* or a string
\* that does not compile.
IsPrefix(lit, s) == Len(lit) <= Len(s) /\ SubSeq(s, 1, Len(lit)) = lit
IsSuffix(lit, s) == Len(lit) <= Len(s) /\ SubSeq(s, Len(s) - Len(lit) + 1, Len(s)) = lit
MatchString(reg, s) ==
  CASE reg.kind = "invalid" -> [match |-> FALSE, err |-> TRUE]
    [] reg.kind = "any"     -> [match |-> TRUE, err |-> FALSE]
    [] reg.kind = "prefix"  -> [match |-> IsPrefix(reg.lit, s), err |-> FALSE]
    [] reg.kind = "suffix"  -> [match |-> IsSuffix(reg.lit, s), err |-> FALSE]

\* a header value is a sequence of symbols: protocol GUIDs and the separator
\* characters Space and Tab; a run of symbols reads as their concatenation
Space == " "
Tab == "\t"

RECURSIVE Split(_)
\* strings.Split(header, " "): the header is cut at every single space and
\* nowhere else, so an empty header splits into one empty token and a tab
\* stays inside its token
Split(h) ==
  IF h = <<>> THEN <<"">>
  ELSE LET rest == Split(Tail(h))
       IN  IF Head(h) = Space
           THEN <<"">> \o rest
           ELSE <<Head(h) \o Head(rest)>> \o Tail(rest)

\* the loop of bitsCreate without its break: the variable ends as the last token
lastProtocolNoBreak(protocols, want) == protocols[Len(protocols)]

\* the value the loop variable of bitsCreate holds after the loop: the first
\* token equal to the configured protocol, else the last token
lastProtocol(protocols, want) ==
  IF \E i \in 1..Len(protocols) : protocols[i] = want
  THEN protocols[CHOOSE i \in 1..Len(protocols) :
                   /\ protocols[i] = want
                   /\ \A j \in 1..(i - 1) : protocols[j] # want]
  ELSE protocols[Len(protocols)]

\* a deny list of which only the first pattern is tried
disallowedFirstOnly(regs, filename) ==
  IF regs = <<>> THEN "pass"
  ELSE LET m == MatchString(Head(regs), filename)
       IN  IF m.err THEN "error matching disallowed filename"
           ELSE IF m.match THEN "filename is blacklisted"
           ELSE "pass"

\* the loop over cfg.Disallowed: stops at the first pattern that fails to
\* compile or that matches
RECURSIVE disallowed(_, _)
disallowed(regs, filename) ==
  IF regs = <<>> THEN "pass"
  ELSE LET m == MatchString(Head(regs), filename)
       IN  IF m.err THEN "error matching disallowed filename"
           ELSE IF m.match THEN "filename is blacklisted"
           ELSE disallowed(Tail(regs), filename)

\* the loop over cfg.Allowed: stops at the first pattern that fails to compile
\* or that matches
RECURSIVE allowed(_, _)
allowed(regs, filename) ==
  IF regs = <<>> THEN "filename is not whitelisted"
  ELSE LET m == MatchString(Head(regs), filename)
       IN  IF m.err THEN "error matching allowed filename"
           ELSE IF m.match THEN "pass"
           ELSE allowed(Tail(regs), filename)

\* ------------------------------------------------------------ responses
\* a http.ResponseWriter nothing was written to: status 200 once written
EmptyResponse ==
  [status |-> StatusOK, packetType |-> "", session |-> NoUUID, protocol |-> "",
   encoding |-> "", received |-> -1, recieved |-> -1, errorCode |-> -1,
   errorContext |-> -1, body |-> ""]
\* no response yet
NoResponse == [EmptyResponse EXCEPT !.status = 0]

\* bitsError: the BITS error acknowledgement, on top of the headers already added
bitsError(w, uuid, statusCode, errorCode, context) ==
  [w EXCEPT !.status = statusCode, !.packetType = "Ack", !.session = uuid,
            !.errorCode = errorCode, !.errorContext = context]

\* http.Error: a plain-text error, no BITS headers
httpError(w, msg, statusCode) == [w EXCEPT !.status = statusCode, !.body = msg]

\* ------------------------------------------------------------ state
VARIABLES
  cfg,        \* the handler configuration, fixed after construction
  dirs,       \* session ids whose directory exists under cfg.TempDir
  files,      \* <<session id, filename>> -> contents of the upload file
  minted,     \* number of ids newUUID has returned
  pc,         \* per goroutine: position in the handler
  req,        \* per goroutine: the request being served
  loc,        \* per goroutine: local variables of the handler
  resp,       \* per goroutine: the response written
  lastAck,    \* <<session id, filename>> -> BITS-Received-Content-Range of the last 200 the client got
  assembled,  \* <<session id, filename>> -> data[dataOffset:] of the fragments acked with 200, in order
  accepted,   \* the Fragment requests the client got a 200 for
  terminated, \* session ids the client got a Cancel-Session or Close-Session ack for
  completed,  \* <<session id, filename>> for which EventRecieveFile reached the callback
  stored,     \* <<session id, filename>> -> the bytes file.Write persisted, in order, acked or not
  interrupted \* <<>>, or of a Fragment whose write broke off, until another request comes in: <<the request, the file had the write completed, the bytes persisted>>

fs == <<dirs, files, minted>>
hist == <<lastAck, assembled, accepted, terminated, completed, stored>>
vars == <<cfg, dirs, files, minted, pc, req, loc, resp, lastAck, assembled,
          accepted, terminated, completed, stored, interrupted>>

\* a path under a session directory
FileKey(uuid, filename) == <<uuid, filename>>
\* exists(path) for an upload file
fileExists(key) == key \in DOMAIN files
FileSize(f, key) == IF key \in DOMAIN f THEN Len(f[key]) ELSE 0
Lookup(f, key, default) == IF key \in DOMAIN f THEN f[key] ELSE default
Store(f, key, v) == [k \in DOMAIN f \cup {key} |-> IF k = key THEN v ELSE f[k]]

\* the locals of a handler at entry
LocInit ==
  [uuid |-> NoUUID, protocol |-> "", filename |-> <<>>, rangeStart |-> 0,
   rangeEnd |-> 0, fileLength |-> 0, fragmentSize |-> 0, exist |-> FALSE,
   fileSize |-> 0, append |-> FALSE, handle |-> "none", orphan |-> FALSE,
   written |-> 0, persisted |-> 0, hook |-> <<>>, atHook |-> NoResponse,
   hookHandle |-> "none", log |-> ""]

\* ------------------------------------------------------- handler steps
\* no response is waiting to be sent
Quiet == \A w \in Workers : pc[w] # "done"

\* net/http starts a goroutine per request; which one is immaterial, so a
\* request goes to the first goroutine that is free
FirstIdle(w) == \A v \in Workers : v < w => pc[v] # "idle"
\* requests handled one at a time
AllIdle == \A v \in Workers : pc[v] = "idle"

\* a handler that returns without a deferred file.Close
ReturnNoDefer(w, r, l, response) ==
  /\ pc' = [pc EXCEPT ![w] = "done"]
  /\ req' = [req EXCEPT ![w] = r]
  /\ loc' = [loc EXCEPT ![w] = l]
  /\ resp' = [resp EXCEPT ![w] = response]

\* the handler returns: the response is written and a deferred file.Close runs
Return(w, r, l, response) ==
  /\ pc' = [pc EXCEPT ![w] = "done"]
  /\ req' = [req EXCEPT ![w] = r]
  /\ loc' = [loc EXCEPT ![w] =
               [l EXCEPT !.handle = IF l.handle = "open" THEN "closed" ELSE l.handle]]
  /\ resp' = [resp EXCEPT ![w] = response]

\* the handler goes on to its next step
Goto(w, r, l, next) ==
  /\ pc' = [pc EXCEPT ![w] = next]
  /\ req' = [req EXCEPT ![w] = r]
  /\ loc' = [loc EXCEPT ![w] = l]
  /\ resp' = [resp EXCEPT ![w] = NoResponse]

\* the callback of a Cancel-Session or Close-Session may remove the session
\* directory with everything in it; a file another goroutine holds open stays
\* with that goroutine, unlinked
RemoveAll(uuid) ==
  /\ dirs' = dirs \ {uuid}
  /\ files' = [k \in {k \in DOMAIN files : k[1] # uuid} |-> files[k]]

Unlinked(l, uuid) ==
  IF l.uuid = uuid /\ l.handle = "open" THEN [l EXCEPT !.orphan = TRUE] ELSE l

\* bitsPing, lines 61-64
bitsPing(w, r) ==
  /\ Return(w, r, [LocInit EXCEPT !.log = "ping"],
            [EmptyResponse EXCEPT !.packetType = "Ack"])
  /\ UNCHANGED <<fs, hist>>

\* bitsCreate, lines 68-87: the protocol check
bitsCreate(w, r) ==
  LET protocol == lastProtocol(Split(r.protocols), cfg.Protocol)
      l == [LocInit EXCEPT !.protocol = protocol]
  IN  /\ IF protocol # cfg.Protocol
         THEN Return(w, r, [l EXCEPT !.log = "no matching protocol found"],
                     bitsError(EmptyResponse, NoUUID, StatusBadRequest, 0,
                               ErrorContextRemoteFile))
         ELSE Goto(w, r, l, "create")
      /\ UNCHANGED <<fs, hist>>

\* bitsCreate, lines 89-105: newUUID and os.MkdirAll of the session directory
bitsCreateSession(w) ==
  /\ Quiet
  /\ pc[w] = "create"
  /\ \/ /\ minted < MaxSessions
        /\ LET uuid == UUIDs[minted + 1]
           IN  /\ minted' = minted + 1
               /\ \/ /\ dirs' = dirs \cup {uuid}
                     /\ Goto(w, req[w], [loc[w] EXCEPT !.uuid = uuid], "create_ack")
                  \/ /\ dirs' = dirs
                     /\ Return(w, req[w],
                               [loc[w] EXCEPT !.uuid = uuid, !.log = "error mkdirAll"],
                               bitsError(EmptyResponse, NoUUID, StatusInternalServerError,
                                         0, ErrorContextRemoteFile))
     \/ /\ UNCHANGED <<dirs, minted>>
        /\ Return(w, req[w], [loc[w] EXCEPT !.log = "Error creating new session UUID"],
                  bitsError(EmptyResponse, NoUUID, StatusInternalServerError, 0,
                            ErrorContextRemoteFile))
  /\ UNCHANGED <<cfg, files, hist, interrupted>>

\* a bitsCreate that adds the acknowledgement headers before it invokes the
\* callback
bitsCreateAckComposeFirst(w) ==
  LET ack == [EmptyResponse EXCEPT !.packetType = "Ack", !.protocol = loc[w].protocol,
                                   !.session = loc[w].uuid, !.encoding = "Identity"]
      l == IF cfg.callback
           THEN [loc[w] EXCEPT !.hook = Append(@, <<EventCreateSession, loc[w].uuid>>),
                               !.atHook = ack]
           ELSE loc[w]
  IN  /\ Quiet
      /\ pc[w] = "create_ack"
      /\ Return(w, req[w], [l EXCEPT !.log = "ack"], ack)
      /\ UNCHANGED <<cfg, fs, hist, interrupted>>

\* bitsCreate, lines 107-117: the callback, if there is one, then the
\* acknowledgement
bitsCreateAck(w) ==
  LET l == IF cfg.callback
           THEN [loc[w] EXCEPT !.hook = Append(@, <<EventCreateSession, loc[w].uuid>>),
                               !.atHook = EmptyResponse]
           ELSE loc[w]
  IN  /\ Quiet
      /\ pc[w] = "create_ack"
      /\ Return(w, req[w], [l EXCEPT !.log = "ack"],
                [EmptyResponse EXCEPT !.packetType = "Ack", !.protocol = l.protocol,
                                      !.session = l.uuid, !.encoding = "Identity"])
      /\ UNCHANGED <<cfg, fs, hist, interrupted>>

\* session checks that do not look for the session directory
sessionCheckNoExists(w, r, next) ==
  LET uuid == r.session
      l == [LocInit EXCEPT !.uuid = uuid]
  IN  /\ IF uuid = NoUUID \/ ~isValidUUID(uuid)
         THEN Return(w, r, [l EXCEPT !.log = "uuid empty or not valid"],
                     bitsError(EmptyResponse, uuid, StatusBadRequest, 0,
                               ErrorContextRemoteFile))
         ELSE Goto(w, r, l, next)
      /\ UNCHANGED <<fs, hist>>

\* bitsCancel lines 355-373 and bitsClose lines 387-405: the session checks
sessionCheck(w, r, next) ==
  LET uuid == r.session
      l == [LocInit EXCEPT !.uuid = uuid]
  IN  /\ IF uuid = NoUUID \/ ~isValidUUID(uuid)
         THEN Return(w, r, [l EXCEPT !.log = "uuid empty or not valid"],
                     bitsError(EmptyResponse, uuid, StatusBadRequest, 0,
                               ErrorContextRemoteFile))
         ELSE \/ /\ uuid \in dirs
                 /\ Goto(w, r, l, next)
              \/ /\ uuid \notin dirs
                 /\ Return(w, r, [l EXCEPT !.log = "dstDir does not exist"],
                           bitsError(EmptyResponse, uuid, StatusBadRequest, 0,
                                     ErrorContextRemoteFile))
              \/ Return(w, r, [l EXCEPT !.log = "error checking if dstDir already exists"],
                        bitsError(EmptyResponse, uuid, StatusBadRequest, 0,
                                  ErrorContextRemoteFile))
      /\ UNCHANGED <<fs, hist>>

bitsCancel(w, r) == sessionCheck(w, r, "cancel_ack")
bitsClose(w, r) == sessionCheck(w, r, "close_ack")

\* lines 375-382 and 407-415: the callback, if there is one, which may remove
\* the session directory, then the acknowledgement
sessionAck(w, at, event) ==
  LET uuid == loc[w].uuid
      l == IF cfg.callback
           THEN [loc[w] EXCEPT !.hook = Append(@, <<event, uuid>>),
                               !.atHook = EmptyResponse, !.log = "ack"]
           ELSE [loc[w] EXCEPT !.log = "ack"]
  IN  /\ Quiet
      /\ pc[w] = at
      /\ pc' = [pc EXCEPT ![w] = "done"]
      /\ resp' = [resp EXCEPT ![w] =
                    [EmptyResponse EXCEPT !.packetType = "Ack", !.session = uuid]]
      /\ \E remove \in {FALSE, cfg.callback} :
           IF remove
           THEN /\ RemoveAll(uuid)
                /\ loc' = [v \in Workers |-> IF v = w THEN l ELSE Unlinked(loc[v], uuid)]
           ELSE /\ UNCHANGED <<dirs, files>>
                /\ loc' = [loc EXCEPT ![w] = l]
      /\ UNCHANGED <<cfg, minted, req, hist, interrupted>>

bitsCancelAck(w) == sessionAck(w, "cancel_ack", EventCancelSession)
\* a Close-Session that reports the event of Cancel-Session
bitsCloseAckAsCancel(w) == sessionAck(w, "close_ack", EventCancelSession)
bitsCloseAck(w) == sessionAck(w, "close_ack", EventCloseSession)

\* a bitsFragment that does not check that the session directory exists
bitsFragmentNoSessionCheck(w, r) ==
  LET uuid == r.session
      l == [LocInit EXCEPT !.uuid = uuid]
  IN  /\ IF uuid = NoUUID \/ ~isValidUUID(uuid)
         THEN Return(w, r, [l EXCEPT !.log = "session UUID is empty or invalid"],
                     bitsError(EmptyResponse, NoUUID, StatusBadRequest, 0,
                               ErrorContextRemoteFile))
         ELSE Goto(w, r, l, "fragment_mkdir")
      /\ UNCHANGED <<fs, hist>>

\* bitsFragment, lines 125-139: the session checks
bitsFragment(w, r) ==
  LET uuid == r.session
      l == [LocInit EXCEPT !.uuid = uuid]
  IN  /\ IF uuid = NoUUID \/ ~isValidUUID(uuid)
         THEN Return(w, r, [l EXCEPT !.log = "session UUID is empty or invalid"],
                     bitsError(EmptyResponse, NoUUID, StatusBadRequest, 0,
                               ErrorContextRemoteFile))
         ELSE IF uuid \notin dirs
         THEN Return(w, r, [l EXCEPT !.log = "srcDir does not exist"],
                     bitsError(EmptyResponse, uuid, StatusBadRequest, 0,
                               ErrorContextRemoteFile))
         ELSE Goto(w, r, l, "fragment_mkdir")
      /\ UNCHANGED <<fs, hist>>

\* a size limit that the declared file length may not reach
tooBigInclusive(fileLength, maxSize) == maxSize > 0 /\ fileLength >= maxSize

\* bitsFragment, line 216: the declared file length against cfg.MaxSize
tooBig(fileLength, maxSize) == maxSize > 0 /\ fileLength > maxSize

\* the checks with the size limit looked at last
fragmentChecksSizeLast(r, readErr) ==
  LET filename == PathSplitFile(r.uri)
      range == parseRange(r.contentRange)
      fragmentSize == ParseUint(r.contentLength)
      deny == disallowed(cfg.Disallowed, filename)
      allow == allowed(cfg.Allowed, filename)
  IN  IF filename = <<>> THEN "path is not correct"
      ELSE IF deny # "pass" THEN deny
      ELSE IF allow # "pass" THEN allow
      ELSE IF range.err THEN "error parsing range"
      ELSE IF fragmentSize.err THEN "error parsing fragmentSize"
      ELSE IF readErr THEN "error reading data"
      ELSE IF Len(r.body) # fragmentSize.n THEN "size of data is not equal to fragmentSize"
      ELSE IF range.rangeEnd - range.rangeStart + 1 # fragmentSize.n
           THEN "range size does not match fragmentSize"
      ELSE IF tooBig(range.fileLength, cfg.MaxSize) THEN "file is too big"
      ELSE "pass"

\* bitsFragment, lines 150-249: the checks of the request made after the
\* session directory is known to exist, in the order of the code; the result
\* is the message logged by the first check that fails, or "pass"
fragmentChecks(r, readErr) ==
  LET filename == PathSplitFile(r.uri)
      range == parseRange(r.contentRange)
      fragmentSize == ParseUint(r.contentLength)
      deny == disallowed(cfg.Disallowed, filename)
      allow == allowed(cfg.Allowed, filename)
  IN  IF filename = <<>> THEN "path is not correct"
      ELSE IF deny # "pass" THEN deny
      ELSE IF allow # "pass" THEN allow
      ELSE IF range.err THEN "error parsing range"
      ELSE IF tooBig(range.fileLength, cfg.MaxSize) THEN "file is too big"
      ELSE IF fragmentSize.err THEN "error parsing fragmentSize"
      ELSE IF readErr THEN "error reading data"
      ELSE IF Len(r.body) # fragmentSize.n THEN "size of data is not equal to fragmentSize"
      ELSE IF range.rangeEnd - range.rangeStart + 1 # fragmentSize.n
           THEN "range size does not match fragmentSize"
      ELSE "pass"

\* the status sent for a failed check
checkStatus(failure) ==
  IF failure = "file is too big" THEN StatusRequestEntityTooLarge ELSE StatusBadRequest

\* bitsFragment, lines 140-147: os.MkdirAll of the session directory, which
\* makes the directory when another goroutine has removed it since line 135
bitsFragmentMkdir(w) ==
  /\ Quiet
  /\ pc[w] = "fragment_mkdir"
  /\ \/ /\ dirs' = dirs
        /\ Return(w, req[w], [loc[w] EXCEPT !.log = "error mkdirAll"],
                  bitsError(EmptyResponse, NoUUID, StatusInternalServerError, 0,
                            ErrorContextRemoteFile))
     \/ /\ dirs' = dirs \cup {loc[w].uuid}
        /\ Goto(w, req[w], loc[w], "fragment_checks")
  /\ UNCHANGED <<cfg, files, minted, hist, interrupted>>

\* bitsFragment, lines 150-260: the checks of the request, among them the
\* read of the body, and then exists(src); the filesystem is read as it is
\* after the body has come in
bitsFragmentChecks(w) ==
  /\ Quiet
  /\ pc[w] = "fragment_checks"
  /\ \E readErr \in BOOLEAN, existsErr \in BOOLEAN :
       LET r == req[w]
           failure == fragmentChecks(r, readErr)
           range == parseRange(r.contentRange)
           l == [loc[w] EXCEPT !.filename = PathSplitFile(r.uri)]
       IN  IF failure # "pass"
           THEN Return(w, r, [l EXCEPT !.log = failure],
                       bitsError(EmptyResponse, l.uuid, checkStatus(failure), 0,
                                 ErrorContextRemoteFile))
           ELSE IF existsErr
           THEN Return(w, r, [l EXCEPT !.log = "error: src file exists"],
                       bitsError(EmptyResponse, l.uuid, StatusBadRequest, 0,
                                 ErrorContextRemoteFile))
           ELSE Goto(w, r,
                     [l EXCEPT !.rangeStart = range.rangeStart,
                               !.rangeEnd = range.rangeEnd,
                               !.fileLength = range.fileLength,
                               !.fragmentSize = ParseUint(r.contentLength).n,
                               !.exist = fileExists(FileKey(l.uuid, l.filename))],
                     "fragment_open")
  /\ UNCHANGED <<cfg, fs, hist, interrupted>>

\* sanity checks that do not look for a range already on disk
sanityChecksNoStale(rangeStart, rangeEnd, fileSize) ==
  IF rangeStart > fileSize THEN "gap in file detected" ELSE "pass"

\* sanity checks whose stale check is off by one: a range that ends at the
\* last byte of the file passes
sanityChecksStaleStrict(rangeStart, rangeEnd, fileSize) ==
  IF rangeEnd + 1 < fileSize THEN "range already written to disk"
  ELSE IF rangeStart > fileSize THEN "gap in file detected"
  ELSE "pass"

\* sanity checks that do not look for a gap
sanityChecksNoGap(rangeStart, rangeEnd, fileSize) ==
  IF rangeEnd < fileSize THEN "range already written to disk" ELSE "pass"

\* bitsFragment, lines 296-309: the sanity checks on the range, given the size
\* of the file; the result is the message logged, or "pass"
sanityChecks(rangeStart, rangeEnd, fileSize) ==
  IF rangeEnd < fileSize THEN "range already written to disk"
  ELSE IF rangeStart > fileSize THEN "gap in file detected"
  ELSE "pass"

\* a handler that never calls file.Stat
sizeOnDiskNoStat(exist, size) == 0

\* bitsFragment, lines 271-292: fileSize is zero for a file just created, and
\* the size file.Stat reports for a file opened for append
sizeOnDisk(exist, size) == IF exist THEN size ELSE 0

\* bitsFragment, lines 261-309: os.OpenFile (O_CREATE|O_WRONLY for a file
\* exists(src) did not find, O_APPEND|O_WRONLY otherwise), file.Stat, and the
\* sanity checks.  Opening fails when the directory (O_CREATE) or the file
\* (O_APPEND) is not there, and may fail for other reasons.
bitsFragmentOpen(w) ==
  LET l == loc[w]
      key == FileKey(l.uuid, l.filename)
      canOpen == IF l.exist THEN fileExists(key) ELSE l.uuid \in dirs
      fileSize == sizeOnDisk(l.exist, FileSize(files, key))
      opened == [l EXCEPT !.handle = "open", !.append = l.exist, !.fileSize = fileSize]
      sanity == sanityChecks(l.rangeStart, l.rangeEnd, fileSize)
  IN  /\ Quiet
      /\ pc[w] = "fragment_open"
      /\ \/ /\ files' = files
            /\ Return(w, req[w],
                      [l EXCEPT !.log = IF l.exist THEN "error appending to file"
                                        ELSE "error creating new file"],
                      bitsError(EmptyResponse, l.uuid, StatusInternalServerError, 0,
                                ErrorContextRemoteFile))
         \/ /\ canOpen
            /\ l.exist
            /\ files' = files
            /\ Return(w, req[w], [opened EXCEPT !.log = "error getting file stat"],
                      bitsError(EmptyResponse, l.uuid, StatusInternalServerError, 0,
                                ErrorContextRemoteFile))
         \/ /\ canOpen
            /\ files' = IF fileExists(key) THEN files ELSE Store(files, key, <<>>)
            /\ IF sanity # "pass"
               THEN Return(w, req[w], [opened EXCEPT !.log = sanity],
                           bitsError([EmptyResponse EXCEPT !.recieved = fileSize], l.uuid,
                                     StatusRequestedRangeNotSatisfiable, 0,
                                     ErrorContextRemoteFile))
               ELSE Goto(w, req[w], opened, "fragment_write")
      /\ UNCHANGED <<cfg, dirs, minted, hist, interrupted>>

\* a handle opened without O_APPEND: every write starts at offset 0
fileWriteNoAppend(l, bytes) ==
  LET key == FileKey(l.uuid, l.filename)
      old == files[key]
  IN  IF l.orphan \/ ~fileExists(key) THEN files
      ELSE Store(files, key, bytes \o SubSeq(old, Len(bytes) + 1, Len(old)))

\* file.Write of n bytes through the handle of l: appended to the file when it
\* was opened with O_APPEND, written from the handle's offset 0 otherwise; a
\* file that was unlinked meanwhile is written to, but is no longer in the
\* directory
fileWrite(l, bytes) ==
  LET key == FileKey(l.uuid, l.filename)
      old == files[key]
  IN  IF l.orphan \/ ~fileExists(key) THEN files
      ELSE IF l.append THEN Store(files, key, old \o bytes)
      ELSE Store(files, key, bytes \o SubSeq(old, Len(bytes) + 1, Len(old)))

\* a write that takes the whole body, whatever the file already holds
dataOffsetZero(fileSize, rangeStart) == 0

\* line 312: the index in the body of the first byte the file does not hold
dataOffset(fileSize, rangeStart) == fileSize - rangeStart

\* what identifies a Fragment request to a client that sends it again
Fragment(r) == <<r.session, PathSplitFile(r.uri), r.contentRange, r.body>>

\* bitsFragment, lines 311-331: write data[dataOffset:]; the write may fail
\* after persisting only the first n bytes
bitsFragmentWrite(w) ==
  LET l == loc[w]
      offset == dataOffset(l.fileSize, l.rangeStart)
      chunk == SliceFrom(req[w].body, offset)
      key == FileKey(l.uuid, l.filename)
  IN  /\ Quiet
      /\ pc[w] = "fragment_write"
      /\ \E n \in 0..Len(chunk), err \in BOOLEAN :
           /\ err => n < Len(chunk)
           /\ files' = fileWrite(l, SubSeq(chunk, 1, n))
           /\ stored' = Store(stored, FileKey(l.uuid, l.filename),
                              Lookup(stored, FileKey(l.uuid, l.filename), <<>>)
                                \o SubSeq(chunk, 1, n))
           /\ LET m == [l EXCEPT !.written = n, !.persisted = n]
              IN  IF err
                  THEN Return(w, req[w], [m EXCEPT !.written = 0, !.log = "error writing file"],
                              bitsError(EmptyResponse, l.uuid, StatusInternalServerError, 0,
                                        ErrorContextRemoteFile))
                  ELSE IF n # l.fragmentSize - offset
                  THEN Return(w, req[w], [m EXCEPT !.log = "writing less data than expected"],
                              bitsError(EmptyResponse, l.uuid, StatusInternalServerError, 0,
                                        ErrorContextRemoteFile))
                  ELSE Goto(w, req[w], m, "fragment_ack")
           /\ interrupted' = IF n < Len(chunk)
                             THEN <<Fragment(req[w]), Lookup(files, key, <<>>) \o chunk, n>>
                             ELSE interrupted
      /\ UNCHANGED <<cfg, dirs, minted, lastAck, assembled, accepted, terminated, completed>>

\* the value of BITS-Received-Content-Range on the acknowledgement, line 348
receivedContentRange(fileSize, written) == fileSize + written

\* bitsFragment, lines 333-349: when the file is complete, file.Close and the
\* callback, if there is one; then the acknowledgement
bitsFragmentAck(w) ==
  LET key == FileKey(loc[w].uuid, loc[w].filename)
      done == loc[w].rangeEnd + 1 = loc[w].fileLength
      closed == IF done THEN [loc[w] EXCEPT !.handle = "closed"] ELSE loc[w]
      l == IF done /\ cfg.callback
           THEN [closed EXCEPT !.hook = Append(@, <<EventRecieveFile, closed.uuid>>),
                               !.atHook = EmptyResponse,
                               !.hookHandle = closed.handle]
           ELSE closed
      received == receivedContentRange(l.fileSize, l.written)
  IN  /\ Quiet
      /\ pc[w] = "fragment_ack"
      /\ Return(w, req[w], [l EXCEPT !.log = "ack"],
                [EmptyResponse EXCEPT !.packetType = "Ack", !.session = l.uuid,
                                      !.received = received])
      /\ completed' = IF done /\ cfg.callback THEN completed \cup {key} ELSE completed
      /\ assembled' = Store(assembled, key,
                            Lookup(assembled, key, <<>>)
                              \o SliceFrom(req[w].body, dataOffset(l.fileSize, l.rangeStart)))
      /\ UNCHANGED <<cfg, fs, lastAck, accepted, terminated, stored, interrupted>>

\* ServeHTTP, lines 17-57: the method check and the dispatch on the packet
\* type, into the first step of the handler of that type.  DumpRequest of the
\* headers of a request that net/http has parsed (lines 18-23) does not fail.
ServeHTTP(w, r) ==
  LET packetType == ToLower(r.packetType)
  IN  /\ Quiet
      /\ pc[w] = "idle"
      /\ \A k \in DOMAIN files : Len(files[k]) <= MaxDisk
      /\ \A k \in DOMAIN assembled : Len(assembled[k]) <= MaxDisk
      /\ \A k \in DOMAIN stored : Len(stored[k]) <= MaxDisk
      /\ IF r.method # cfg.AllowedMethod
         THEN /\ Return(w, r, [LocInit EXCEPT !.log = "method"],
                        httpError(EmptyResponse, "Method not allowed", StatusMethodNotAllowed))
              /\ UNCHANGED <<fs, hist>>
         ELSE CASE packetType = "ping" -> bitsPing(w, r)
                [] packetType = "create-session" -> bitsCreate(w, r)
                [] packetType = "cancel-session" -> bitsCancel(w, r)
                [] packetType = "close-session" -> bitsClose(w, r)
                [] packetType = "fragment" -> bitsFragment(w, r)
                [] OTHER -> /\ Return(w, r, [LocInit EXCEPT !.log = "error occured"],
                                      bitsError(EmptyResponse, NoUUID, StatusBadRequest, 0,
                                                ErrorContextRemoteFile))
                            /\ UNCHANGED <<fs, hist>>
      /\ interrupted' = IF /\ interrupted # <<>>
                           /\ r.method = cfg.AllowedMethod
                           /\ packetType = "fragment"
                           /\ Fragment(r) = interrupted[1]
                        THEN interrupted
                        ELSE <<>>
      /\ UNCHANGED cfg

\* ------------------------------------------------------------ requests
Request(packetType) ==
  [method |-> BitsPost, packetType |-> packetType, session |-> NoUUID,
   protocols |-> <<>>, uri |-> <<>>, contentRange |-> <<>>, contentLength |-> -1,
   body |-> <<>>]

CreateRequests(protocolLists) ==
  {[Request("Create-Session") EXCEPT !.protocols = p] : p \in protocolLists}

SessionRequests(packetType, sessions) ==
  {[Request(packetType) EXCEPT !.session = s] : s \in sessions}

FragmentRequests(sessions, uris, ranges, lengths, bodies) ==
  {[Request("Fragment") EXCEPT !.session = s, !.uri = u, !.contentRange = cr,
                               !.contentLength = cl, !.body = b] :
     s \in sessions, u \in uris, cr \in ranges, cl \in lengths, b \in bodies}

\* a session id header: absent, malformed, or one of the ids newUUID mints
Sessions == {NoUUID, BadUUID} \cup {UUIDs[i] : i \in 1..MaxSessions}
\* every Content-Range header over the lengths of the model, and a malformed one
Ranges == {<<>>} \cup {<<a, b, c>> : a \in 0..(MaxLen - 1), b \in 0..(MaxLen - 1), c \in 0..MaxLen}
\* the well-formed Content-Range headers
ValidRanges == {h \in Ranges : ~parseRange(h).err}
\* the body a well-behaved client sends for a range: its bytes of the file,
\* which is all x or all y
Body(h, byte) == [i \in 1..(h[2] - h[1] + 1) |-> byte]

\* the Fragment requests of a well-behaved client
ClientFragments(sessions, uris, bytes) ==
  {[Request("Fragment") EXCEPT !.session = s, !.uri = u, !.contentRange = h,
                               !.contentLength = h[2] - h[1] + 1,
                               !.body = Body(h, byte)] :
     s \in sessions, u \in uris, h \in ValidRanges, byte \in bytes}

MatchAll == [kind |-> "any", lit |-> <<>>]
NoRegexp == [kind |-> "invalid", lit |-> <<>>]
Prefix(lit) == [kind |-> "prefix", lit |-> lit]
Suffix(lit) == [kind |-> "suffix", lit |-> lit]

Config(maxSize, allow, deny, callback) ==
  [AllowedMethod |-> BitsPost, Protocol |-> ProtocolGUID, MaxSize |-> maxSize,
   Allowed |-> allow, Disallowed |-> deny, callback |-> callback]

\* ------------------------------------------------------------ specifications
InitWith(configs) ==
  /\ cfg \in configs
  /\ dirs = {}
  /\ files = <<>>
  /\ minted = 0
  /\ pc = [w \in Workers |-> "idle"]
  /\ req = [w \in Workers |-> Request("")]
  /\ loc = [w \in Workers |-> LocInit]
  /\ resp = [w \in Workers |-> NoResponse]
  /\ lastAck = <<>>
  /\ assembled = <<>>
  /\ accepted = {}
  /\ terminated = {}
  /\ completed = {}
  /\ stored = <<>>
  /\ interrupted = <<>>

\* the messages logged when file.Write wrote fewer bytes than it was given
WriteFailures == {"error writing file", "writing less data than expected"}

\* ServeHTTP returns: net/http sends the response and the goroutine ends.  The
\* state in which a response has been written is left by this step alone, so
\* that it shows the filesystem as it is when the response is sent.
Flush(w) ==
  LET acked == resp[w].status = StatusOK /\ req[w].method = cfg.AllowedMethod
      packetType == ToLower(req[w].packetType)
      key == FileKey(loc[w].uuid, loc[w].filename)
  IN  /\ pc[w] = "done"
      /\ pc' = [pc EXCEPT ![w] = "idle"]
      /\ req' = [req EXCEPT ![w] = Request("")]
      /\ loc' = [loc EXCEPT ![w] = LocInit]
      /\ resp' = [resp EXCEPT ![w] = NoResponse]
      /\ IF acked /\ packetType = "fragment"
         THEN /\ lastAck' = Store(lastAck, key, resp[w].received)
              /\ accepted' = accepted \cup {Fragment(req[w])}
         ELSE UNCHANGED <<lastAck, accepted>>
      /\ terminated' = IF acked /\ packetType \in {"cancel-session", "close-session"}
                       THEN terminated \cup {loc[w].uuid}
                       ELSE terminated
      /\ interrupted' = IF loc[w].log \in WriteFailures THEN interrupted ELSE <<>>
      /\ UNCHANGED <<cfg, fs, assembled, completed, stored>>

Step(w) ==
  \/ bitsCreateSession(w)
  \/ bitsCreateAck(w)
  \/ bitsCancelAck(w)
  \/ bitsCloseAck(w)
  \/ bitsFragmentMkdir(w)
  \/ bitsFragmentChecks(w)
  \/ bitsFragmentOpen(w)
  \/ bitsFragmentWrite(w)
  \/ bitsFragmentAck(w)

\* Requests served concurrently, one goroutine each: two clients, or one client
\* that does not wait for the acknowledgement.
ConcurrentRequests ==
  CreateRequests({<<ProtocolGUID>>})
    \cup SessionRequests("Cancel-Session", {UUIDs[1]})
    \cup SessionRequests("Close-Session", {UUIDs[1]})
    \cup {r \in ClientFragments({UUIDs[1]}, {<<<<"a">>>>}, {"x"}) :
            r.contentRange \in {<<0, 0, 2>>, <<0, 1, 2>>, <<1, 1, 2>>}}
    \cup {Request("Ping"), [Request("Ping") EXCEPT !.method = "GET"], Request("bogus")}

Init == InitWith({Config(0, <<MatchAll>>, <<>>, TRUE)})
Next ==
  \/ Quiet /\ \E w \in Workers : FirstIdle(w) /\ \E r \in ConcurrentRequests : ServeHTTP(w, r)
  \/ \E w \in Workers : Step(w)
  \/ \E w \in Workers : Flush(w)
Spec == Init /\ [][Next]_vars

\* One client that waits for each acknowledgement before it sends the next
\* request: uploads of a file of x's or y's in any fragments, replays, gaps,
\* overlaps, with and without a callback.
SerialRequests ==
  CreateRequests({<<ProtocolGUID>>, <<OtherGUID>>})
    \cup SessionRequests("Cancel-Session", {NoUUID, BadUUID, UUIDs[1]})
    \cup SessionRequests("Close-Session", {NoUUID, BadUUID, UUIDs[1]})
    \cup ClientFragments({BadUUID, UUIDs[1]}, {<<<<"a">>>>}, Byte)
    \cup {Request("Ping"), [Request("Ping") EXCEPT !.method = "GET"], Request("bogus")}

InitSerial == InitWith({Config(0, <<MatchAll>>, <<>>, cb) : cb \in BOOLEAN})
NextSerial ==
  \/ AllIdle /\ \E w \in Workers : FirstIdle(w) /\ \E r \in SerialRequests : ServeHTTP(w, r)
  \/ \E w \in Workers : Step(w)
  \/ \E w \in Workers : Flush(w)
SpecSerial == InitSerial /\ [][NextSerial]_vars

\* the headers and the body of the request agree on a range of a file
WellFormed(r) ==
  /\ ~parseRange(r.contentRange).err
  /\ r.contentLength = Len(r.body)
  /\ r.contentLength = r.contentRange[2] - r.contentRange[1] + 1
\* the range of the request is all of its file
WholeFile(r) == r.contentRange[1] = 0 /\ r.contentRange[2] + 1 = r.contentRange[3]

\* One client, any Fragment request: every combination of session id, file
\* name, Content-Range, Content-Length and body length, under each size limit;
\* the well-formed ones among them upload a file in one fragment, the others
\* have no range or a range that starts at byte 0.
CheckRequests ==
  CreateRequests({<<ProtocolGUID>>})
    \cup SessionRequests("Close-Session", {UUIDs[1]})
    \cup {r \in FragmentRequests({BadUUID, UUIDs[1]}, {<<<<>>>>, <<<<"a">>>>, <<<<"b">>>>},
                                 Ranges, -1..MaxLen,
                                 {Body(<<1, n, n>>, "x") : n \in 0..MaxLen}) :
            /\ WellFormed(r) => WholeFile(r)
            /\ ~WellFormed(r) => r.contentRange = <<>> \/ r.contentRange[1] = 0}

InitChecks == InitWith({Config(m, <<Prefix(<<"a">>)>>, <<>>, TRUE) : m \in 0..MaxLen})
NextChecks ==
  \/ AllIdle /\ \E w \in Workers : FirstIdle(w) /\ \E r \in CheckRequests : ServeHTTP(w, r)
  \/ \E w \in Workers : Step(w)
  \/ \E w \in Workers : Flush(w)
SpecChecks == InitChecks /\ [][NextChecks]_vars

\* One client, every file name under every configuration of the deny and allow
\* lists.
\* names that match ^a only, b$ only, both, and neither
Names == {<<"a">>, <<"b">>, <<"a", "b">>, <<"b", "a">>}
Patterns == {MatchAll, NoRegexp, Prefix(<<"a">>), Suffix(<<"b">>)}
PatternLists == SeqsUpTo(Patterns, 2)
FilterRequests ==
  CreateRequests({<<ProtocolGUID>>})
    \cup SessionRequests("Cancel-Session", {UUIDs[1]})
    \cup {r \in ClientFragments({UUIDs[1]}, {<<n>> : n \in Names}, {"x"}) :
            r.contentRange = <<0, 0, 1>>}

InitFilter == InitWith({Config(0, allow, deny, TRUE) : allow \in PatternLists, deny \in PatternLists})
NextFilter ==
  \/ AllIdle /\ \E w \in Workers : FirstIdle(w) /\ \E r \in FilterRequests : ServeHTTP(w, r)
  \/ \E w \in Workers : Step(w)
  \/ \E w \in Workers : Flush(w)
SpecFilter == InitFilter /\ [][NextFilter]_vars

\* One client, every BITS-Supported-Protocols header of up to MaxHeader
\* symbols: GUIDs cut by spaces, by tabs, by both, and uncut.
MaxHeader == 3
ProtocolHeaders == SeqsUpTo({ProtocolGUID, OtherGUID, Space, Tab}, MaxHeader)
CreateSessionRequests ==
  CreateRequests(ProtocolHeaders)
    \cup SessionRequests("Cancel-Session", {UUIDs[1]})
    \cup {r \in ClientFragments({UUIDs[1]}, {<<<<"a">>>>}, {"x"}) :
            r.contentRange = <<0, 0, 1>>}

InitCreate == InitWith({Config(0, <<MatchAll>>, <<>>, cb) : cb \in BOOLEAN})
NextCreate ==
  \/ AllIdle /\ \E w \in Workers : FirstIdle(w) /\ \E r \in CreateSessionRequests : ServeHTTP(w, r)
  \/ \E w \in Workers : Step(w)
  \/ \E w \in Workers : Flush(w)
SpecCreate == InitCreate /\ [][NextCreate]_vars

\* ------------------------------------------------------------ properties
\* goroutine w has written the response to a request of this packet type
Served(w, packetType) ==
  /\ pc[w] = "done"
  /\ req[w].method = cfg.AllowedMethod
  /\ ToLower(req[w].packetType) = packetType
\* ... and the response is the 200 Ack of a Fragment
FragmentAcked(w) == Served(w, "fragment") /\ resp[w].status = StatusOK
\* the file the Fragment request of w is for
Key(w) == FileKey(loc[w].uuid, loc[w].filename)
\* the file of w is in its session directory, and is the file w has open
OnDisk(w) == fileExists(Key(w)) /\ ~loc[w].orphan

\* C1: with the Fragment requests handled one at a time, the value of
\* BITS-Received-Content-Range on a 200 Ack is at least the value on the
\* previous 200 Ack for the same session and file name, and at most the
\* file_length of the Content-Range of the request it answers.
C1_MonotonicProgress ==
  \A w \in Workers :
    FragmentAcked(w) =>
      /\ resp[w].received >= Lookup(lastAck, Key(w), 0)
      /\ resp[w].received <= parseRange(req[w].contentRange).fileLength

\* a second fragment of a file is acked, after an ack that reported bytes
C1_Witness ==
  \E w \in Workers :
    /\ FragmentAcked(w)
    /\ Key(w) \in DOMAIN lastAck
    /\ lastAck[Key(w)] >= 1
    /\ resp[w].received > lastAck[Key(w)]

\* C2: on every 200 Ack of a Fragment, also with Fragment requests for the
\* same session and file name in flight at once, BITS-Received-Content-Range
\* equals the size of the file on disk when the response is written, and the
\* file holds no more than the file_length of the request (no range twice).
C2_AckIsSizeOnDisk ==
  \A w \in Workers :
    FragmentAcked(w) /\ OnDisk(w) =>
      /\ resp[w].received = FileSize(files, Key(w))
      /\ FileSize(files, Key(w)) <= loc[w].fileLength

\* the Fragment w acked is the one that completes the file
FinalAcked(w) ==
  FragmentAcked(w) /\ OnDisk(w) /\ loc[w].rangeEnd + 1 = loc[w].fileLength

\* C3 as claimed: when the Fragment with range_end + 1 = file_length is acked
\* with 200, the file on disk is file_length bytes long and holds the
\* concatenation, in order of acceptance, of data[file_size - range_start:] of
\* every accepted fragment of the file.
C3_AcceptedSuffixes ==
  \A w \in Workers :
    FinalAcked(w) =>
      /\ FileSize(files, Key(w)) = loc[w].fileLength
      /\ files[Key(w)] = Lookup(assembled, Key(w), <<>>)

\* C3, amended: with the fragments of the file handled one at a time, when the
\* Fragment with range_end + 1 = file_length is acked with 200, the file on
\* disk is file_length bytes long and holds the concatenation, in order of
\* writing, of the bytes every Fragment persisted: data[file_size -
\* range_start:] of an accepted fragment, and the part of it that reached the
\* disk of a fragment whose write was interrupted.
C3_ExactAssembly ==
  \A w \in Workers :
    FinalAcked(w) =>
      /\ FileSize(files, Key(w)) = loc[w].fileLength
      /\ files[Key(w)] = Lookup(stored, Key(w), <<>>)

\* the final fragment is acked for a file that holds bytes of an interrupted
\* write
C3_Witness ==
  \E w \in Workers :
    /\ FinalAcked(w)
    /\ Lookup(stored, Key(w), <<>>) # Lookup(assembled, Key(w), <<>>)

\* the positions of bitsFragment after the session checks
FragmentSteps ==
  {"fragment_mkdir", "fragment_checks", "fragment_open", "fragment_write", "fragment_ack"}
\* the messages logged when a call into the operating system fails
IOFailures ==
  {"error mkdirAll", "error reading data", "error: src file exists",
   "error creating new file", "error appending to file", "error getting file stat",
   "error writing file", "writing less data than expected",
   "Error creating new session UUID", "error checking if dstDir already exists"}
\* the byte count a response reports, under either spelling of the header
ReceivedCount(response) ==
  IF response.received # -1 THEN response.received ELSE response.recieved
\* the file a request is for
RequestKey(r) == FileKey(r.session, PathSplitFile(r.uri))
\* the request has a packet type that names a session
SessionBound(r) ==
  /\ r.method = cfg.AllowedMethod
  /\ ToLower(r.packetType) \in {"fragment", "cancel-session", "close-session"}

\* C4: a Fragment request the client already has a 200 Ack for, sent again to
\* its session, changes no file at any step, and unless the operating system
\* fails it is answered 416 with the current size of the file as the byte
\* count received; any number of times, whatever was accepted in between.
C4_ReplayIdempotent ==
  [][\A w \in Workers :
       pc[w] \in FragmentSteps /\ Fragment(req[w]) \in accepted =>
         /\ files' = files
         /\ pc'[w] = "done" /\ loc'[w].log \notin IOFailures =>
              /\ resp'[w].status = StatusRequestedRangeNotSatisfiable
              /\ ReceivedCount(resp'[w]) = FileSize(files', RequestKey(req[w]))]_vars

\* a fragment is replayed and rejected after a later fragment was accepted
C4_Witness ==
  \E w \in Workers :
    /\ Served(w, "fragment")
    /\ Fragment(req[w]) \in accepted
    /\ resp[w].status = StatusRequestedRangeNotSatisfiable
    /\ Lookup(lastAck, Key(w), 0) > loc[w].rangeEnd + 1

\* C5: a Fragment that passed the checks of its headers and whose range_start
\* is beyond the size of the file on disk (0 if there is no file) is answered
\* 416, unless opening the file fails, and writes nothing: every file keeps
\* its contents and a file it creates is empty.
C5_GapRejected ==
  [][\A w \in Workers :
       /\ pc[w] = "fragment_open"
       /\ pc'[w] # "fragment_open"
       /\ loc[w].rangeStart > FileSize(files, Key(w))
       => /\ pc'[w] = "done"
          /\ \/ resp'[w].status = StatusRequestedRangeNotSatisfiable
             \/ loc'[w].log \in IOFailures
          /\ \A k \in DOMAIN files : k \in DOMAIN files' /\ files'[k] = files[k]
          /\ \A k \in DOMAIN files' \ DOMAIN files : files'[k] = <<>>]_vars

\* a gap is rejected on a file that holds bytes
C5_Witness ==
  \E w \in Workers :
    /\ Served(w, "fragment")
    /\ resp[w].status = StatusRequestedRangeNotSatisfiable
    /\ OnDisk(w)
    /\ loc[w].rangeStart > FileSize(files, Key(w))

\* C6: a Fragment, Cancel-Session or Close-Session request with a well-formed
\* session id whose directory does not exist is answered 400 at once: no
\* callback, no directory or file created or changed.
C6_SessionGating ==
  [][\A w \in Workers :
       /\ pc[w] = "idle"
       /\ pc'[w] # "idle"
       /\ SessionBound(req'[w])
       /\ isValidUUID(req'[w].session)
       /\ req'[w].session \notin dirs
       => /\ pc'[w] = "done"
          /\ resp'[w].status = StatusBadRequest
          /\ loc'[w].hook = <<>>
          /\ dirs' = dirs
          /\ files' = files]_vars

\* a Fragment for a session that does not exist and was never closed is
\* refused
C6_Witness ==
  \E w \in Workers :
    /\ Served(w, "fragment")
    /\ isValidUUID(req[w].session)
    /\ req[w].session \notin dirs
    /\ req[w].session \notin terminated
    /\ resp[w].status = StatusBadRequest

\* C7 as claimed: once the client has the ack of a Close-Session or
\* Cancel-Session, every later Fragment, Cancel-Session or Close-Session with
\* that session id is answered 400, persists no byte and reaches no callback.
C7_TerminalAbsorbing ==
  \A w \in Workers :
    pc[w] = "done" /\ SessionBound(req[w]) /\ req[w].session \in terminated =>
      /\ resp[w].status = StatusBadRequest
      /\ loc[w].persisted = 0
      /\ loc[w].hook = <<>>

\* C7, amended: once the client has the ack of a Close-Session or
\* Cancel-Session, every later Fragment, Cancel-Session or Close-Session with
\* that session id that finds the session directory gone (the callback removed
\* it) is answered 400, changes no file or directory and reaches no callback.
C7_TerminalGone ==
  [][\A w \in Workers :
       /\ pc[w] = "idle"
       /\ pc'[w] # "idle"
       /\ SessionBound(req'[w])
       /\ req'[w].session \in terminated
       /\ req'[w].session \notin dirs
       => /\ pc'[w] = "done"
          /\ resp'[w].status = StatusBadRequest
          /\ loc'[w].hook = <<>>
          /\ dirs' = dirs
          /\ files' = files]_vars

\* a request for a session that was closed and removed is refused
C7_Witness ==
  \E w \in Workers :
    /\ pc[w] = "done"
    /\ SessionBound(req[w])
    /\ req[w].session \in terminated
    /\ req[w].session \notin dirs
    /\ resp[w].status = StatusBadRequest

\* the nine checks of a Fragment request, each stated on the request alone
CheckPasses(i, r) ==
  LET h == r.contentRange
      name == PathSplitFile(r.uri)
  IN  CASE i = 1 -> Len(r.session) = 3 /\ r.session[1] = "{" /\ r.session[3] = "}"
        [] i = 2 -> r.session \in dirs
        [] i = 3 -> name # <<>>
        [] i = 4 -> /\ \A k \in 1..Len(cfg.Disallowed) : ~MatchString(cfg.Disallowed[k], name).match
                    /\ \E k \in 1..Len(cfg.Allowed) : MatchString(cfg.Allowed[k], name).match
        [] i = 5 -> Len(h) = 3 /\ h[1] <= h[2] /\ h[2] < h[3]
        [] i = 6 -> cfg.MaxSize = 0 \/ h[3] <= cfg.MaxSize
        [] i = 7 -> r.contentLength >= 0
        [] i = 8 -> Len(r.body) = r.contentLength
        [] i = 9 -> h[2] - h[1] + 1 = r.contentLength
\* the first of the nine checks the request fails, 0 if it passes them all
FirstFailure(r) ==
  IF \A i \in 1..9 : CheckPasses(i, r) THEN 0
  ELSE CHOOSE i \in 1..9 : ~CheckPasses(i, r) /\ \A j \in 1..(i - 1) : CheckPasses(j, r)
\* what the handler logs when the check fails
CheckMessages(i) ==
  CASE i = 1 -> {"session UUID is empty or invalid"}
    [] i = 2 -> {"srcDir does not exist"}
    [] i = 3 -> {"path is not correct"}
    [] i = 4 -> {"filename is blacklisted", "filename is not whitelisted"}
    [] i = 5 -> {"error parsing range"}
    [] i = 6 -> {"file is too big"}
    [] i = 7 -> {"error parsing fragmentSize"}
    [] i = 8 -> {"size of data is not equal to fragmentSize"}
    [] i = 9 -> {"range size does not match fragmentSize"}
AllCheckMessages == UNION {CheckMessages(i) : i \in 1..9}
\* the response to w is not that of a failed call into the operating system
NoIOFailure(w) == loc[w].log \notin IOFailures

\* C8: the response to a Fragment request is decided by the first check it
\* fails, in the order (1) session id well-formed, (2) session directory
\* exists, (3) filename not empty, (4) filename passes the filter, (5)
\* Content-Range parses, (6) max_size = 0 or file_length <= max_size, (7)
\* Content-Length parses, (8) body length = Content-Length, (9) range size =
\* Content-Length: 413 for (6), 400 for the others, and no file is opened or
\* written; a request that fails none is refused by none of them.
C8_ValidationOrder ==
  \A w \in Workers :
    Served(w, "fragment") /\ NoIOFailure(w) =>
      LET k == FirstFailure(req[w])
      IN  IF k = 0 THEN loc[w].log \notin AllCheckMessages
          ELSE /\ loc[w].log \in CheckMessages(k)
               /\ resp[w].status = IF k = 6 THEN StatusRequestEntityTooLarge
                                            ELSE StatusBadRequest
               /\ loc[w].handle = "none"
               /\ loc[w].persisted = 0

\* a request over the size limit that also fails a later check is answered 413
C8_Witness ==
  \E w \in Workers :
    /\ Served(w, "fragment")
    /\ FirstFailure(req[w]) = 6
    /\ ~CheckPasses(9, req[w])
    /\ resp[w].status = StatusRequestEntityTooLarge

\* the messages logged when the filter rejects a file name
FilterMessages ==
  {"error matching disallowed filename", "filename is blacklisted",
   "error matching allowed filename", "filename is not whitelisted"}
\* the request of w got as far as the filter
ReachedFilter(w) ==
  /\ Served(w, "fragment")
  /\ loc[w].log \notin {"session UUID is empty or invalid", "srcDir does not exist",
                        "error mkdirAll", "path is not correct"}
\* every pattern of the configuration is a regular expression
Compiles ==
  /\ \A k \in 1..Len(cfg.Disallowed) : ~MatchString(cfg.Disallowed[k], <<>>).err
  /\ \A k \in 1..Len(cfg.Allowed) : ~MatchString(cfg.Allowed[k], <<>>).err
Denied(name) == \E k \in 1..Len(cfg.Disallowed) : MatchString(cfg.Disallowed[k], name).match
Permitted(name) == \E k \in 1..Len(cfg.Allowed) : MatchString(cfg.Allowed[k], name).match

\* C9: under every deny list and allow list of regular expressions, the filter
\* lets a file name through iff no deny pattern matches it and some allow
\* pattern matches it (so a name matching both lists is rejected, and so is
\* every name under an empty allow list); a name it lets through has that
\* property under any lists; a rejected name is answered 400 and its file is
\* not created.
C9_FilterDecision ==
  \A w \in Workers :
    ReachedFilter(w) =>
      LET name == PathSplitFile(req[w].uri)
          rejected == loc[w].log \in FilterMessages
      IN  /\ ~rejected => ~Denied(name) /\ Permitted(name)
          /\ Compiles /\ ~Denied(name) /\ Permitted(name) => ~rejected
          /\ rejected => /\ resp[w].status = StatusBadRequest
                         /\ loc[w].handle = "none"
                         /\ ~fileExists(Key(w))

\* a name that matches a deny pattern and an allow pattern is rejected
C9_Witness ==
  \E w \in Workers :
    /\ ReachedFilter(w)
    /\ Compiles
    /\ Denied(PathSplitFile(req[w].uri))
    /\ Permitted(PathSplitFile(req[w].uri))
    /\ loc[w].log = "filename is blacklisted"
    /\ resp[w].status = StatusBadRequest

\* the request of w passes the checks made before the size limit is looked at
ReachedSizeCheck(w) ==
  /\ Served(w, "fragment")
  /\ loc[w].log # "error mkdirAll"
  /\ \A i \in 1..5 : CheckPasses(i, req[w])

\* C10: a Fragment is answered 413 only if max_size > 0 and its file_length is
\* above max_size, and then nothing is opened or written; one that passes the
\* checks made before the size check and has file_length > max_size > 0 is
\* answered 413 whatever its range; so none is refused for its size when
\* file_length = max_size or max_size = 0.
C10_MaxSize ==
  \A w \in Workers :
    Served(w, "fragment") =>
      LET over == /\ cfg.MaxSize > 0
                  /\ Len(req[w].contentRange) = 3
                  /\ req[w].contentRange[3] > cfg.MaxSize
      IN  /\ resp[w].status = StatusRequestEntityTooLarge =>
                over /\ loc[w].handle = "none" /\ loc[w].persisted = 0
          /\ loc[w].log = "file is too big" => resp[w].status = StatusRequestEntityTooLarge
          /\ ReachedSizeCheck(w) /\ over => resp[w].status = StatusRequestEntityTooLarge

\* a fragment whose own range is within the limit is refused for the declared
\* length of its file
C10_Witness ==
  \E w \in Workers :
    /\ ReachedSizeCheck(w)
    /\ resp[w].status = StatusRequestEntityTooLarge
    /\ req[w].contentRange[2] + 1 <= cfg.MaxSize
    /\ req[w].contentRange[3] > cfg.MaxSize

\* the callback was invoked with this event while the request of l was handled
Emitted(l, event) == \E i \in 1..Len(l.hook) : l.hook[i][1] = event
\* the number of times the callback was invoked for the request of l
Invocations(l) == Len(l.hook)

\* C11: over the Fragment requests for one (session, filename), handled one at
\* a time, EventReceiveFile reaches the hook exactly once: a Fragment request
\* invokes the hook iff it is acked with 200, its range_end + 1 = file_length
\* and the hook was not invoked for that file before; never on a rejected
\* Fragment, never on a Fragment sent after the file was completed.
C11_ReceiveFileOnce ==
  [][\A w \in Workers :
       pc[w] \in FragmentSteps /\ pc'[w] = "done" /\ cfg.callback =>
         LET key == RequestKey(req[w])
             final == /\ resp'[w].status = StatusOK
                      /\ loc'[w].rangeEnd + 1 = loc'[w].fileLength
         IN  /\ Emitted(loc'[w], EventRecieveFile) <=> final /\ key \notin completed
             /\ Invocations(loc'[w]) <= 1]_vars

\* the event the handler of a packet type reports
EventOf(packetType) ==
  CASE packetType = "create-session" -> EventCreateSession
    [] packetType = "cancel-session" -> EventCancelSession
    [] packetType = "close-session" -> EventCloseSession

\* C12: the hook is not invoked for a request that is answered with a status
\* other than 200, and with a hook configured each Create-Session,
\* Cancel-Session and Close-Session answered 200 invokes it exactly once, with
\* the event of its packet type and the session id of the response.
C12_NoHookOnError ==
  \A w \in Workers :
    pc[w] = "done" =>
      /\ resp[w].status # StatusOK => loc[w].hook = <<>>
      /\ /\ req[w].method = cfg.AllowedMethod
         /\ resp[w].status = StatusOK
         /\ ToLower(req[w].packetType) \in {"create-session", "cancel-session", "close-session"}
         /\ cfg.callback
         => loc[w].hook = <<<<EventOf(ToLower(req[w].packetType)), resp[w].session>>>>

\* a Close-Session is acked after the hook got EventCloseSession for its id
C12_Witness ==
  \E w \in Workers :
    /\ Served(w, "close-session")
    /\ resp[w].status = StatusOK
    /\ loc[w].hook = <<<<EventCloseSession, req[w].session>>>>

\* C13 as claimed: in every request that invokes the hook, the response
\* headers are composed when the hook is invoked, and the response is not
\* flushed yet: compose headers, invoke hook, flush.
C13_ComposeHookFlush ==
  \A w \in Workers :
    loc[w].hook # <<>> =>
      /\ loc[w].atHook.packetType = "Ack"
      /\ pc[w] = "done"

\* C13, amended: in every request that invokes the hook, no response header
\* is added when the hook is invoked, the headers of the 200 Ack are composed
\* after it, and the response is not flushed yet: invoke hook, compose
\* headers, flush.
C13_HookComposeFlush ==
  \A w \in Workers :
    loc[w].hook # <<>> =>
      /\ loc[w].atHook = EmptyResponse
      /\ resp[w].packetType = "Ack" /\ resp[w].status = StatusOK
      /\ pc[w] = "done"

\* a Create-Session whose hook ran before the headers of its ack were added
C13_Witness ==
  \E w \in Workers :
    /\ Served(w, "create-session")
    /\ loc[w].hook = <<<<EventCreateSession, resp[w].session>>>>
    /\ loc[w].atHook.session = NoUUID
    /\ resp[w].session # NoUUID

\* C14: every response with a status other than 200, the 405 of a method
\* mismatch and the 400 of an unknown packet type included, has an empty body
\* and the headers BITS-Packet-Type: Ack, BITS-Session-Id (which may be
\* empty), BITS-Error-Code and BITS-Error-Context: 0x00000005; a request with
\* another method than the allowed one is answered 405 whatever its packet
\* type, and no hook is invoked for it.
C14_ErrorAckHeaders ==
  \A w \in Workers :
    pc[w] = "done" =>
      /\ resp[w].status # StatusOK =>
           /\ resp[w].body = ""
           /\ resp[w].packetType = "Ack"
           /\ resp[w].errorCode # -1
           /\ resp[w].errorContext = ErrorContextRemoteFile
      /\ req[w].method # cfg.AllowedMethod =>
           /\ resp[w].status = StatusMethodNotAllowed
           /\ loc[w].hook = <<>>

\* C15: every 416 response to a Fragment carries the size of the file in the
\* header named BITS-Received-Content-Range, the header of the 200 Ack.
C15_ReceivedHeaderName ==
  \A w \in Workers :
    Served(w, "fragment") /\ resp[w].status = StatusRequestedRangeNotSatisfiable =>
      resp[w].received = loc[w].fileSize

\* the header h holds the protocol p as a token: a maximal run of symbols
\* free of the characters of seps that reads as p
HasToken(h, seps, p) ==
  \E i \in 1..Len(h), j \in 1..Len(h) :
    /\ i <= j
    /\ \A k \in i..j : h[k] \notin seps
    /\ i = 1 \/ h[i - 1] \in seps
    /\ j = Len(h) \/ h[j + 1] \in seps
    /\ p = (IF i = j THEN h[i]
            ELSE IF j = i + 1 THEN h[i] \o h[j]
            ELSE h[i] \o h[i + 1] \o h[j])
\* the steps of goroutine w through a Create-Session request whose header is
\* cut into tokens at the characters of seps
CreateSessionOutcome(w, seps) ==
  LET r == req'[w]
      match == HasToken(r.protocols, seps, cfg.Protocol)
      received == /\ pc[w] = "idle" /\ pc'[w] # "idle"
                  /\ r.method = cfg.AllowedMethod
                  /\ ToLower(r.packetType) = "create-session"
      answered == pc[w] \in {"create", "create_ack"} /\ pc'[w] = "done"
  IN  /\ received =>
            /\ match <=> pc'[w] = "create"
            /\ ~match => /\ pc'[w] = "done"
                         /\ resp'[w].status = StatusBadRequest
                         /\ loc'[w].hook = <<>>
                         /\ dirs' = dirs
      /\ answered /\ loc'[w].log \notin IOFailures =>
            /\ resp'[w].status = StatusOK
            /\ resp'[w].protocol = cfg.Protocol
            /\ resp'[w].session = loc'[w].uuid
            /\ loc'[w].uuid \in dirs'
            /\ loc'[w].uuid \notin terminated
            /\ cfg.callback => loc'[w].hook = <<<<EventCreateSession, loc'[w].uuid>>>>
      /\ pc[w] = "create" /\ pc'[w] = "create_ack" =>
            /\ loc'[w].uuid \notin dirs
            /\ dirs' = dirs \cup {loc'[w].uuid}

\* C16 as stated: Create-Session succeeds exactly when a token of the
\* whitespace-separated BITS-Supported-Protocols header equals the configured
\* protocol: it then creates the session directory, emits one
\* EventCreateSession for it and answers 200 with BITS-Protocol and the
\* BITS-Session-Id of that directory; otherwise it answers 400, creates no
\* directory and emits no event.
C16_WhitespaceTokens == [][\A w \in Workers : CreateSessionOutcome(w, {Space, Tab})]_vars

\* C16 amended: the same with the header cut at each single space only, so
\* that a tab is part of the token it stands in.
C16_SpaceTokens == [][\A w \in Workers : CreateSessionOutcome(w, {Space})]_vars

\* a header whose second token is the configured protocol opened a session
C16_Witness ==
  \E w \in Workers :
    /\ Served(w, "create-session")
    /\ req[w].protocols = <<OtherGUID, Space, ProtocolGUID>>
    /\ resp[w].status = StatusOK
    /\ resp[w].protocol = cfg.Protocol
    /\ resp[w].session \in dirs
    /\ loc[w].hook = <<<<EventCreateSession, resp[w].session>>>>

\* goroutine w answers the Fragment request whose write broke off when the
\* client sent it the last time
AnswersRetry(w) ==
  /\ pc[w] # "done" /\ pc'[w] = "done"
  /\ req'[w].method = cfg.AllowedMethod
  /\ ToLower(req'[w].packetType) = "fragment"
  /\ interrupted # <<>>
  /\ Fragment(req'[w]) = interrupted[1]

\* C17: with the requests handled one at a time, a Fragment whose write breaks
\* off after k of its new bytes are on disk is not answered 200 and leaves the
\* session directory in place; the same Fragment sent again is answered 200,
\* unless a call into the operating system fails again, and then the file is
\* range_end + 1 bytes long and holds what it would hold had the first write
\* completed.
C17_RetryIdempotent ==
  [][\A w \in Workers :
       /\ pc[w] = "fragment_write" /\ pc'[w] = "done" =>
             /\ resp'[w].status = StatusInternalServerError
             /\ loc'[w].uuid \in dirs'
             /\ interrupted' # <<>>
             /\ interrupted'[1] = Fragment(req[w])
             /\ interrupted'[3] = loc'[w].persisted
             /\ Len(interrupted'[2]) = loc'[w].rangeEnd + 1
       /\ AnswersRetry(w) /\ loc'[w].log \notin IOFailures =>
             LET key == RequestKey(req'[w])
             IN  /\ resp'[w].status = StatusOK
                 /\ key \in DOMAIN files'
                 /\ files'[key] = interrupted[2]
                 /\ Len(files'[key]) = req'[w].contentRange[2] + 1
                 /\ ReceivedCount(resp'[w]) = req'[w].contentRange[2] + 1]_vars

\* a two-byte Fragment whose first write stopped after one byte has been sent
\* again and acknowledged
C17_Witness ==
  \E w \in Workers :
    /\ FragmentAcked(w)
    /\ interrupted # <<>>
    /\ interrupted[1] = Fragment(req[w])
    /\ interrupted[3] = 1
    /\ Len(req[w].body) = 2
    /\ files[Key(w)] = interrupted[2]

\* C18: whatever size the handler read for the file, a Fragment that has
\* passed its precondition checks and the stale and gap checks has a
\* data_offset of at least 0 and less than the length of its body; when it
\* is acknowledged, at least one byte was written and the size acknowledged,
\* fileSize + written, is range_end + 1.
C18_DataOffsetInBody ==
  \A w \in Workers :
    /\ pc[w] \in {"fragment_write", "fragment_ack"} =>
          /\ 0 <= loc[w].fileSize - loc[w].rangeStart
          /\ loc[w].fileSize - loc[w].rangeStart < Len(req[w].body)
    /\ pc[w] = "fragment_ack" \/ FragmentAcked(w) =>
          /\ loc[w].written >= 1
          /\ loc[w].fileSize + loc[w].written = req[w].contentRange[2] + 1
    /\ FragmentAcked(w) => resp[w].received = req[w].contentRange[2] + 1

\* a Fragment that overlaps the file by one byte has been acknowledged
C18_Witness ==
  \E w \in Workers :
    /\ FragmentAcked(w)
    /\ loc[w].fileSize - loc[w].rangeStart = 1
    /\ loc[w].written = 1
    /\ resp[w].received = 2

\* C19: no step of a Fragment request creates a session directory, and a
\* Fragment whose session directory has been removed since its existence
\* check writes no file.
C19_FragmentCreatesNoDirectory ==
  [][\A w \in Workers :
       pc[w] \in FragmentSteps /\ pc'[w] # pc[w] =>
         /\ dirs' \subseteq dirs
         /\ loc[w].uuid \notin dirs => files' = files]_vars

\* the messages logged on the ways out of bitsFragment that follow a
\* successful os.OpenFile
ExitsAfterOpen ==
  {"error getting file stat", "range already written to disk", "gap in file detected",
   "error writing file", "writing less data than expected", "ack"}

\* C20: when bitsFragment has returned, on whichever way out, the file handle
\* it opened is closed, and none is open; when it completes a file, the
\* handle is closed by the time the callback receives EventRecieveFile.
C20_HandleClosed ==
  \A w \in Workers :
    /\ pc[w] \in {"idle", "done"} => loc[w].handle # "open"
    /\ Served(w, "fragment") /\ loc[w].log \in ExitsAfterOpen => loc[w].handle = "closed"
    /\ Emitted(loc[w], EventRecieveFile) => loc[w].hookHandle = "closed"

\* a Fragment that completed its file has returned: the callback got the
\* event with the handle closed
C20_Witness ==
  \E w \in Workers :
    /\ FragmentAcked(w)
    /\ Emitted(loc[w], EventRecieveFile)
    /\ loc[w].hookHandle = "closed"
    /\ loc[w].handle = "closed"

====
